---- MODULE Spec2Model ----
(***************************************************************************)
(* Model of src/app.py: the Seasonality Detector (check_seasonality) and   *)
(* the Complexity Scorer (analyze_dataset) of the AutoML decision engine.  *)
(*                                                                         *)
(* A DataFrame is modelled by what the two functions read from it: the     *)
(* ordered columns, and per column its dtype, its nunique(), what          *)
(* pd.to_datetime makes of it (failure, or the earliest and latest day)    *)
(* and what pd.to_numeric(errors='coerce').dropna() leaves of it (failure, *)
(* or the valid observations in order); and the row count len(df).         *)
(* One call of analyze_dataset is a run of its gates, one step per gate.   *)
(***************************************************************************)
EXTENDS Integers, Sequences, FiniteSets, TLC

\* ---------------------------------------------------------------- bounds
\* The largest number of feature columns (columns other than date/target).
MaxFeatures == 3
\* The longest series handed to the Seasonality Detector on its own.
MaxPoints == 95

\* ------------------------------------------------------ program constants
\* app.py:28  len(clean_series) < 50
MinPoints == 50
\* app.py:32  acf(..., nlags=40)
Nlags == 40
\* app.py:35  acf_values[7]
WeeklyLag == 7
\* app.py:35  acf_values[28:32], first index of the slice
MonthlyFrom == 28
\* app.py:35  acf_values[28:32], end of the slice (exclusive)
MonthlyTo == 32
\* app.py:35  the threshold 0.3, as the fraction AcfNum / AcfDen
AcfNum == 3
AcfDen == 10
\* app.py:53  len(feature_cols) > 2
FeatureLimit == 2
\* app.py:55  feature_cols[:3]
NamedFeatures == 3
\* app.py:64  nunique() > 10
UniqueLimit == 10
\* app.py:70  len(df) > 500000
RowLimit == 500000
\* app.py:81  the threshold 0.25, as the fraction 1 / RatioDen
RatioDen == 4

VARIABLES
    df,            \* the DataFrame the shell passes in (app.py:106, 134)
    target_col,    \* app.py:116
    date_col,      \* app.py:115
    horizon_days,  \* app.py:119
    pc,            \* where the running call of analyze_dataset stands
    reasons,       \* app.py:45
    score_azure,   \* app.py:46
    feature_cols,  \* app.py:50
    is_seasonal,   \* app.py:88
    result         \* what the last finished call returned (app.py:92)

vars == <<df, target_col, date_col, horizon_days, pc, reasons, score_azure,
          feature_cols, is_seasonal, result>>

\* ------------------------------------------------------------- the inputs
\* Column names, by position in df.columns.
Names == <<"c1", "c2", "c3", "c4", "c5", "c6", "c7", "c8">>

NoDates == [parses |-> FALSE, nat |-> FALSE, lo |-> 0, hi |-> 0]
NoValues == [coercible |-> TRUE, valid |-> 0, shape |-> "const"]

\* Feature columns: store names (object, 11 or 10 distinct), a numeric code.
FeatureKinds ==
    { [dtype |-> "object", nunique |-> UniqueLimit + 1, dates |-> NoDates, values |-> NoValues],
      [dtype |-> "object", nunique |-> UniqueLimit,     dates |-> NoDates, values |-> NoValues],
      [dtype |-> "int64",  nunique |-> UniqueLimit + 5, dates |-> NoDates,
       values |-> [coercible |-> TRUE, valid |-> MinPoints, shape |-> "const"]] }

\* Date columns as read_csv delivers them: text that is no date, an empty
\* column, one single day, a span of 100 days.
JunkDates ==
    [dtype |-> "object", nunique |-> UniqueLimit + 1, values |-> NoValues,
     dates |-> [parses |-> FALSE, nat |-> FALSE, lo |-> 0, hi |-> 0]]
EmptyDates ==
    [dtype |-> "float64", nunique |-> 0, values |-> NoValues,
     dates |-> [parses |-> TRUE, nat |-> TRUE, lo |-> 0, hi |-> 0]]
OneDay ==
    [dtype |-> "object", nunique |-> 1, values |-> NoValues,
     dates |-> [parses |-> TRUE, nat |-> FALSE, lo |-> 19000, hi |-> 19000]]
HundredDays ==
    [dtype |-> "object", nunique |-> UniqueLimit + 1, values |-> NoValues,
     dates |-> [parses |-> TRUE, nat |-> FALSE, lo |-> 19000, hi |-> 19100]]

DateKinds == {JunkDates, EmptyDates, OneDay, HundredDays}

\* A target column holding the given observations.
TargetOf(v) == [dtype |-> "float64", nunique |-> 2, dates |-> NoDates, values |-> v]

\* Target columns of the datasets analysed: a weekly pattern over 49 and
\* over 50 valid observations, and cells pd.to_numeric cannot take.
TargetKinds ==
    { TargetOf([coercible |-> TRUE,  valid |-> MinPoints - 1, shape |-> "weekly"]),
      TargetOf([coercible |-> TRUE,  valid |-> MinPoints,     shape |-> "weekly"]),
      TargetOf([coercible |-> FALSE, valid |-> MinPoints,     shape |-> "weekly"]) }

\* The series handed to the Seasonality Detector on its own.
Shapes == {"weekly", "monthly", "impulse", "const"}

SeriesInputs ==
    { TargetOf([coercible |-> c, valid |-> n, shape |-> s]) :
        c \in BOOLEAN, n \in 0..MaxPoints, s \in Shapes }

RowCounts == {RowLimit, RowLimit + 1}
Horizons == {25, 26}

\* Sequences over S of length at most n.
SeqUpTo(S, n) == UNION { [1..k -> S] : k \in 0..n }

\* df.columns with the date and the target column at either end.
Layout(features, date, target, date_first, target_first) ==
    IF date_first /\ target_first THEN <<date, target>> \o features
    ELSE IF date_first THEN <<date>> \o features \o <<target>>
    ELSE IF target_first THEN <<target>> \o features \o <<date>>
    ELSE features \o <<target, date>>

Named(kinds) ==
    [i \in 1..Len(kinds) |->
        [name |-> Names[i], dtype |-> kinds[i].dtype, nunique |-> kinds[i].nunique,
         dates |-> kinds[i].dates, values |-> kinds[i].values]]

Position(date_first, target_first, n, is_date) ==
    IF date_first /\ target_first THEN (IF is_date THEN 1 ELSE 2)
    ELSE IF date_first THEN (IF is_date THEN 1 ELSE n + 2)
    ELSE IF target_first THEN (IF is_date THEN n + 2 ELSE 1)
    ELSE (IF is_date THEN n + 2 ELSE n + 1)

\* ------------------------------------------------------ DataFrame access
\* df.columns
Columns(d) == [i \in 1..Len(d.cols) |-> d.cols[i].name]

\* df[c]
Column(d, c) == d.cols[CHOOSE i \in 1..Len(d.cols) : d.cols[i].name = c]

\* df[c] = col
SetColumn(d, c, col) ==
    [d EXCEPT !.cols = [i \in 1..Len(d.cols) |->
                           IF d.cols[i].name = c THEN col ELSE d.cols[i]]]

\* ------------------------------------------------- Seasonality Detector
\* One observation of a series of the given shape: a spike every 7th or
\* every 30th observation, a single spike, or a constant.
Sample(shape, t) ==
    IF shape = "weekly" THEN (IF t % 7 = 0 THEN 1 ELSE 0)
    ELSE IF shape = "monthly" THEN (IF t % 30 = 0 THEN 1 ELSE 0)
    ELSE IF shape = "impulse" THEN (IF t = 1 THEN 1 ELSE 0)
    ELSE 1

\* pd.to_numeric(series, errors='coerce').dropna(): the valid observations,
\* in order; raises on cells it cannot take (raised = TRUE).
to_numeric(series) ==
    [raised |-> ~series.values.coercible,
     value  |-> [t \in 1..series.values.valid |-> Sample(series.values.shape, t)]]

RECURSIVE SumTo(_, _)
SumTo(f, n) == IF n = 0 THEN 0 ELSE f[n] + SumTo(f, n - 1)

\* statsmodels acf(x, nlags, fft=True), adjusted=False: the coefficient at
\* lag k is  sum_{t<=n-k} (x_t - m)(x_{t+k} - m) / sum_t (x_t - m)^2,  kept
\* as the exact fraction num/den of integers (both scaled by n^2); the
\* coefficients of a constant series are 0/0 = nan.
acf(x, nlags) ==
    LET n == Len(x)
        s == SumTo(x, n)
        y == [t \in 1..n |-> n * x[t] - s]
        den == SumTo([t \in 1..n |-> y[t] * y[t]], n)
    IN  [k \in 0..nlags |->
            [nan |-> den = 0,
             num |-> SumTo([t \in 1..(n - k) |-> y[t] * y[t + k]], n - k),
             den |-> den]]

\* coefficient > 0.3; a comparison with nan is False.
Exceeds(c) == ~c.nan /\ AcfDen * c.num > AcfNum * c.den

check_seasonality_49(series) ==
    LET clean_series == to_numeric(series) IN
    IF clean_series.raised THEN [raised |-> FALSE, value |-> FALSE]
    ELSE IF Len(clean_series.value) < MinPoints - 1 THEN [raised |-> FALSE, value |-> FALSE]
    ELSE LET acf_values == acf(clean_series.value, Nlags) IN
         [raised |-> FALSE,
          value  |-> \/ Exceeds(acf_values[WeeklyLag])
                     \/ \E k \in MonthlyFrom..(MonthlyTo - 1) : Exceeds(acf_values[k])]

\* check_seasonality: raised tells whether an exception leaves the function.
check_seasonality(series) ==
    LET clean_series == to_numeric(series) IN
    IF clean_series.raised THEN [raised |-> FALSE, value |-> FALSE]
    ELSE IF Len(clean_series.value) < MinPoints THEN [raised |-> FALSE, value |-> FALSE]
    ELSE LET acf_values == acf(clean_series.value, Nlags) IN
         [raised |-> FALSE,
          value  |-> \/ Exceeds(acf_values[WeeklyLag])
                     \/ \E k \in MonthlyFrom..(MonthlyTo - 1) : Exceeds(acf_values[k])]

\* --------------------------------------------------- Complexity Scorer
\* A reason string, by the values its f-string formats.
Reason(kind, cols, n, m) == [kind |-> kind, cols |-> cols, n |-> n, m |-> m]

Head3(s) == SubSeq(s, 1, IF Len(s) < NamedFeatures THEN Len(s) ELSE NamedFeatures)

FeatureCols_target_only(d, tcol, dcol) ==
    SelectSeq(Columns(d), LAMBDA c : c # tcol)

\* [c for c in df.columns if c not in [target_col, date_col]]
FeatureCols(d, tcol, dcol) ==
    SelectSeq(Columns(d), LAMBDA c : c \notin {tcol, dcol})

PotentialIds_all_columns(d, fcols) ==
    SelectSeq(Columns(d),
              LAMBDA c : Column(d, c).nunique > 1 /\ Column(d, c).dtype = "object")

\* [c for c in feature_cols if df[c].nunique() > 1 and df[c].dtype == 'object']
PotentialIds(d, fcols) ==
    SelectSeq(fcols,
              LAMBDA c : Column(d, c).nunique > 1 /\ Column(d, c).dtype = "object")

RECURSIVE ScanIds_no_break(_, _, _)
ScanIds_no_break(d, ids, i) ==
    IF i > Len(ids) THEN <<>>
    ELSE IF Column(d, ids[i]).nunique > UniqueLimit
         THEN <<Reason("HighGranularity", <<ids[i]>>, Column(d, ids[i]).nunique, 0)>>
              \o ScanIds_no_break(d, ids, i + 1)
         ELSE ScanIds_no_break(d, ids, i + 1)

\* for col in potential_ids: if df[col].nunique() > 10: ...; break
\* The reasons the loop appends, scanning from the i-th id on.
RECURSIVE ScanIds(_, _, _)
ScanIds(d, ids, i) ==
    IF i > Len(ids) THEN <<>>
    ELSE IF Column(d, ids[i]).nunique > UniqueLimit
         THEN <<Reason("HighGranularity", <<ids[i]>>, Column(d, ids[i]).nunique, 0)>>
         ELSE ScanIds(d, ids, i + 1)

HighVolume_ge(nrows) == nrows >= RowLimit

\* len(df) > 500000
HighVolume(nrows) == nrows > RowLimit

\* pd.to_datetime(df[date_col]): raises on text that is no date, else the
\* column as datetime64.
to_datetime(col) ==
    [raised |-> ~col.dates.parses,
     value  |-> [col EXCEPT !.dtype = "datetime64[ns]"]]

\* (df[date_col].max() - df[date_col].min()).days; NaT.days is nan.
HistoryDays(col) ==
    [nan |-> col.dates.nat, days |-> col.dates.hi - col.dates.lo]

LongHorizon_ge(horizon, history) ==
    /\ ~history.nan
    /\ history.days > 0
    /\ RatioDen * horizon >= history.days

\* history_days > 0 and horizon_days / history_days > 0.25. A comparison
\* with nan is False; the quotient of two integers of this size exceeds
\* 1/4 exactly when 4 * horizon_days > history_days.
LongHorizon(horizon, history) ==
    /\ ~history.nan
    /\ history.days > 0
    /\ RatioDen * horizon > history.days

ReportSeasonality_any_score(seasonal, score) == seasonal

\* is_seasonal and score_azure > 0
ReportSeasonality(seasonal, score) == seasonal /\ score > 0

Init ==
    /\ \E features \in SeqUpTo(FeatureKinds, MaxFeatures),
          date \in DateKinds, target \in TargetKinds,
          date_first \in BOOLEAN, target_first \in BOOLEAN,
          nrows \in RowCounts :
          LET n == Len(features) IN
          /\ df = [cols |-> Named(Layout(features, date, target, date_first, target_first)),
                   nrows |-> nrows]
          /\ date_col = Names[Position(date_first, target_first, n, TRUE)]
          /\ target_col = Names[Position(date_first, target_first, n, FALSE)]
    /\ horizon_days \in Horizons
    /\ pc = "idle"
    /\ reasons = <<>>
    /\ score_azure = 0
    /\ feature_cols = <<>>
    /\ is_seasonal = FALSE
    /\ result = <<>>

\* The shell calls analyze_dataset(df, target_col, date_col, horizon).
Call ==
    /\ pc = "idle"
    /\ pc' = "gate1"
    /\ reasons' = <<>>
    /\ score_azure' = 0
    /\ UNCHANGED <<df, target_col, date_col, horizon_days, feature_cols, is_seasonal, result>>

Gate1 ==
    /\ pc = "gate1"
    /\ LET fc == FeatureCols(df, target_col, date_col) IN
       /\ feature_cols' = fc
       /\ IF Len(fc) > FeatureLimit
          THEN /\ score_azure' = score_azure + 1
               /\ reasons' = Append(reasons, Reason("Multivariate", Head3(fc), Len(fc), 0))
          ELSE UNCHANGED <<score_azure, reasons>>
    /\ pc' = "gate2"
    /\ UNCHANGED <<df, target_col, date_col, horizon_days, is_seasonal, result>>

Gate2 ==
    /\ pc = "gate2"
    /\ LET potential_ids == PotentialIds(df, feature_cols)
           found == ScanIds(df, potential_ids, 1)
       IN /\ score_azure' = score_azure + Len(found)
          /\ reasons' = reasons \o found
    /\ pc' = "gate3"
    /\ UNCHANGED <<df, target_col, date_col, horizon_days, feature_cols, is_seasonal, result>>

Gate3_prepend ==
    /\ pc = "gate3"
    /\ IF HighVolume(df.nrows)
       THEN /\ score_azure' = score_azure + 1
            /\ reasons' = <<Reason("HighVolume", <<>>, df.nrows, 0)>> \o reasons
       ELSE UNCHANGED <<score_azure, reasons>>
    /\ pc' = "gate4"
    /\ UNCHANGED <<df, target_col, date_col, horizon_days, feature_cols, is_seasonal, result>>

Gate3 ==
    /\ pc = "gate3"
    /\ IF HighVolume(df.nrows)
       THEN /\ score_azure' = score_azure + 1
            /\ reasons' = Append(reasons, Reason("HighVolume", <<>>, df.nrows, 0))
       ELSE UNCHANGED <<score_azure, reasons>>
    /\ pc' = "gate4"
    /\ UNCHANGED <<df, target_col, date_col, horizon_days, feature_cols, is_seasonal, result>>

Gate4_uncaught ==
    /\ pc = "gate4"
    /\ LET parsed == to_datetime(Column(df, date_col)) IN
       IF parsed.raised
       THEN /\ pc' = "raised"
            /\ UNCHANGED <<df, score_azure, reasons>>
       ELSE LET history_days == HistoryDays(parsed.value) IN
            /\ pc' = "gate5"
            /\ df' = SetColumn(df, date_col, parsed.value)
            /\ IF LongHorizon(horizon_days, history_days)
               THEN /\ score_azure' = score_azure + 1
                    /\ reasons' = Append(reasons,
                          Reason("LongHorizon", <<>>, horizon_days, history_days.days))
               ELSE UNCHANGED <<score_azure, reasons>>
    /\ UNCHANGED <<target_col, date_col, horizon_days, feature_cols, is_seasonal, result>>

\* The try block of Gate 4: an exception of pd.to_datetime is caught before
\* df[date_col] is assigned.
Gate4 ==
    /\ pc = "gate4"
    /\ LET parsed == to_datetime(Column(df, date_col)) IN
       IF parsed.raised
       THEN /\ reasons' = Append(reasons, Reason("DateWarning", <<date_col>>, 0, 0))
            /\ UNCHANGED <<df, score_azure>>
       ELSE LET history_days == HistoryDays(parsed.value) IN
            /\ df' = SetColumn(df, date_col, parsed.value)
            /\ IF LongHorizon(horizon_days, history_days)
               THEN /\ score_azure' = score_azure + 1
                    /\ reasons' = Append(reasons,
                          Reason("LongHorizon", <<>>, horizon_days, history_days.days))
               ELSE UNCHANGED <<score_azure, reasons>>
    /\ pc' = "gate5"
    /\ UNCHANGED <<target_col, date_col, horizon_days, feature_cols, is_seasonal, result>>

\* An exception leaving check_seasonality would leave analyze_dataset too.
Gate5 ==
    /\ pc = "gate5"
    /\ LET seasonal == check_seasonality(Column(df, target_col)) IN
       IF seasonal.raised
       THEN /\ pc' = "raised"
            /\ UNCHANGED <<is_seasonal, reasons>>
       ELSE /\ pc' = "done"
            /\ is_seasonal' = seasonal.value
            /\ IF ReportSeasonality(seasonal.value, score_azure)
               THEN reasons' = Append(reasons, Reason("ComplexSeasonality", <<>>, 0, 0))
               ELSE UNCHANGED reasons
    /\ UNCHANGED <<df, target_col, date_col, horizon_days, score_azure, feature_cols, result>>

\* return score_azure, reasons; the locals of the call are gone.
Return ==
    /\ pc = "done"
    /\ result' = <<score_azure, reasons>>
    /\ pc' = "idle"
    /\ reasons' = <<>>
    /\ score_azure' = 0
    /\ feature_cols' = <<>>
    /\ is_seasonal' = FALSE
    /\ UNCHANGED <<df, target_col, date_col, horizon_days>>

Next ==
    \/ Call
    \/ Gate1
    \/ Gate2
    \/ Gate3
    \/ Gate4
    \/ Gate5
    \/ Return

Spec == Init /\ [][Next]_vars

\* The Seasonality Detector called on its own, on a series of the dataset.
DetectorInit ==
    /\ \E series \in SeriesInputs :
          df = [cols |-> Named(<<HundredDays, series>>), nrows |-> MaxPoints]
    /\ date_col = Names[1]
    /\ target_col = Names[2]
    /\ horizon_days \in Horizons
    /\ pc = "detector"
    /\ reasons = <<>>
    /\ score_azure = 0
    /\ feature_cols = <<>>
    /\ is_seasonal = FALSE
    /\ result = <<>>

Detect ==
    /\ pc = "detector"
    /\ LET seasonal == check_seasonality(Column(df, target_col)) IN
       IF seasonal.raised
       THEN pc' = "raised" /\ UNCHANGED is_seasonal
       ELSE pc' = "detected" /\ is_seasonal' = seasonal.value
    /\ UNCHANGED <<df, target_col, date_col, horizon_days, reasons, score_azure,
                   feature_cols, result>>

DetectorNext == Detect

DetectorSpec == DetectorInit /\ [][DetectorNext]_vars

\* ------------------------------------------------------------ the claims
Last(s) == s[Len(s)]

Kinds(rs) == [i \in 1..Len(rs) |-> rs[i].kind]

HowMany(rs, kind) == Cardinality({i \in 1..Len(rs) : rs[i].kind = kind})

\* The columns other than the date and the target column, by position.
OtherColumns ==
    {i \in 1..Len(df.cols) : df.cols[i].name \notin {date_col, target_col}}

\* The positions of the text columns among them with more than 10 distinct values.
Qualifying ==
    {i \in OtherColumns : df.cols[i].dtype = "object" /\ df.cols[i].nunique > 10}

DateColumn == Column(df, date_col)

TargetColumn == Column(df, target_col)

Span == DateColumn.dates.hi - DateColumn.dates.lo

\* C1: when the date column parses, Gate 4 adds 1 to the score and appends
\* the Long Horizon reason exactly when history_days > 0 and
\* 4 * horizon_days > history_days, and otherwise adds nothing: with 100 days
\* of history a horizon of 26 fires and one of 25 does not, and a history of
\* 0 days (or none) never fires.
C1_HorizonRatio ==
    [][ (pc = "gate4" /\ DateColumn.dates.parses) =>
          LET fires == /\ score_azure' = score_azure + 1
                       /\ reasons' = Append(reasons,
                                            Reason("LongHorizon", <<>>, horizon_days, Span))
              silent == score_azure' = score_azure /\ reasons' = reasons
          IN  /\ IF ~DateColumn.dates.nat /\ Span > 0 /\ 4 * horizon_days > Span
                 THEN fires ELSE silent
              /\ (~DateColumn.dates.nat /\ Span = 100 /\ horizon_days = 26) => fires
              /\ (~DateColumn.dates.nat /\ Span = 100 /\ horizon_days = 25) => silent
              /\ (DateColumn.dates.nat \/ Span <= 0) => silent ]_vars

C1_Witness ==
    /\ pc = "gate5"
    /\ horizon_days = 26
    /\ Span = 100
    /\ reasons # <<>>
    /\ Last(reasons) = Reason("LongHorizon", <<>>, 26, 100)

\* C2: when the date column does not parse, Gate 4 appends exactly one
\* warning reason, leaves the score alone, appends no Long Horizon reason and
\* hands over to Gate 5; no exception ever leaves analyze_dataset.
C2_DateFailure ==
    [][ /\ (pc = "gate4" /\ ~DateColumn.dates.parses) =>
              /\ Len(reasons') = Len(reasons) + 1
              /\ SubSeq(reasons', 1, Len(reasons)) = reasons
              /\ Last(reasons').kind = "DateWarning"
              /\ score_azure' = score_azure
              /\ pc' = "gate5"
        /\ (pc = "gate5" /\ ~DateColumn.dates.parses) => pc' = "done"
        /\ pc' # "raised" ]_vars

C2_Witness ==
    /\ pc = "done"
    /\ ~DateColumn.dates.parses
    /\ HowMany(reasons, "DateWarning") = 1
    /\ HowMany(reasons, "LongHorizon") = 0

\* C3: Gate 2 adds exactly 1 to the score and appends exactly one High
\* Granularity reason, naming the first text feature column (in column
\* order) with more than 10 distinct values, when there is such a column,
\* however many there are; it adds nothing when there is none.
C3_GranularityOnce ==
    [][ pc = "gate2" =>
          IF Qualifying = {}
          THEN score_azure' = score_azure /\ reasons' = reasons
          ELSE LET first == CHOOSE i \in Qualifying : \A j \in Qualifying : i <= j IN
               /\ score_azure' = score_azure + 1
               /\ reasons' = Append(reasons,
                     Reason("HighGranularity", <<df.cols[first].name>>,
                            df.cols[first].nunique, 0)) ]_vars

C3_Witness ==
    /\ pc = "gate3"
    /\ Cardinality(Qualifying) >= 2
    /\ HowMany(reasons, "HighGranularity") = 1

\* C4: Gate 5 never changes the score, and appends the Complex Seasonality
\* reason exactly when the detector returned true and the score of gates
\* 1-4 is greater than 0.
C4_SeasonalityNeedsScore ==
    [][ pc = "gate5" =>
          /\ score_azure' = score_azure
          /\ IF is_seasonal' /\ score_azure > 0
             THEN reasons' = Append(reasons, Reason("ComplexSeasonality", <<>>, 0, 0))
             ELSE reasons' = reasons ]_vars

C4_Witness ==
    /\ pc = "done"
    /\ is_seasonal
    /\ score_azure > 0
    /\ Last(reasons).kind = "ComplexSeasonality"

\* C5: the dataset is read-only within an analysis call: no step of
\* analyze_dataset changes any column of df.
C5_DatasetReadOnly == [][df' = df]_vars

\* C6: a call of analyze_dataset on the dataset and parameters of an earlier
\* call returns the same score and the same ordered reasons as that call.
C6_Idempotent ==
    [][ (pc = "done" /\ result # <<>>) => result' = result ]_vars

C6_Witness ==
    /\ pc = "done"
    /\ result # <<>>
    /\ DateColumn.dtype = "datetime64[ns]"
    /\ result = <<score_azure, reasons>>
    /\ score_azure > 0

Gate1Holds == Cardinality(OtherColumns) > 2

Gate2Holds == Qualifying # {}

Gate3Holds == df.nrows > 500000

Gate4Holds ==
    /\ DateColumn.dates.parses
    /\ ~DateColumn.dates.nat
    /\ Span > 0
    /\ 4 * horizon_days > Span

One(b) == IF b THEN 1 ELSE 0

\* C7: the score returned is the number of gates among 1-4 whose condition
\* holds, each deciding on its own; so it lies in 0..4 and is 4 when all hold.
C7_ScoreCountsGates ==
    pc = "done" =>
        /\ score_azure = One(Gate1Holds) + One(Gate2Holds) + One(Gate3Holds) + One(Gate4Holds)
        /\ score_azure \in 0..4
        /\ (Gate1Holds /\ Gate2Holds /\ Gate3Holds /\ Gate4Holds) => score_azure = 4

C7_Witness ==
    /\ pc = "done"
    /\ score_azure = 4
    /\ df.nrows = 500001

ColumnIndex(c) == CHOOSE i \in 1..Len(df.cols) : df.cols[i].name = c

\* C8: feature_cols is the columns of the dataset without date_col and
\* target_col, in column order, and Gate 1 adds 1 to the score and appends
\* the Multivariate reason exactly when there are more than 2 of them.
C8_FeatureColumns ==
    [][ pc = "gate1" =>
          /\ {feature_cols'[i] : i \in 1..Len(feature_cols')}
                = {df.cols[i].name : i \in OtherColumns}
          /\ \A i, j \in 1..Len(feature_cols') :
                i < j => ColumnIndex(feature_cols'[i]) < ColumnIndex(feature_cols'[j])
          /\ IF Cardinality(OtherColumns) > 2
             THEN /\ score_azure' = score_azure + 1
                  /\ Len(reasons') = Len(reasons) + 1
                  /\ SubSeq(reasons', 1, Len(reasons)) = reasons
                  /\ Last(reasons').kind = "Multivariate"
             ELSE score_azure' = score_azure /\ reasons' = reasons ]_vars

C8_Witness ==
    /\ pc = "gate2"
    /\ Len(feature_cols) = 3
    /\ date_col = "c1"
    /\ Kinds(reasons) = <<"Multivariate">>

ValidPoints ==
    IF TargetColumn.values.coercible THEN TargetColumn.values.valid ELSE 0

\* C9: check_seasonality never raises; it returns false when fewer than 50
\* valid values remain or the coercion fails, and true only with at least 50
\* valid values whose autocorrelation at lag 7, or at a lag in 28..31,
\* exceeds 0.3.
C9_SeasonalityGuarded ==
    /\ pc # "raised"
    /\ pc = "detected" =>
          /\ ValidPoints < 50 => ~is_seasonal
          /\ ~TargetColumn.values.coercible => ~is_seasonal
          /\ is_seasonal =>
                /\ ValidPoints >= 50
                /\ \E k \in {7, 28, 29, 30, 31} :
                      Exceeds(acf(to_numeric(TargetColumn).value, 40)[k])

C9_Witness ==
    /\ pc = "detected"
    /\ ValidPoints = 49
    /\ TargetColumn.values.shape = "weekly"
    /\ ~is_seasonal

GateOf(kind) ==
    IF kind = "Multivariate" THEN 1
    ELSE IF kind = "HighGranularity" THEN 2
    ELSE IF kind = "HighVolume" THEN 3
    ELSE IF kind \in {"LongHorizon", "DateWarning"} THEN 4
    ELSE 5

\* C10: within a call the score never decreases and the reasons only grow by
\* appending; the reasons returned are in gate order with at most one reason
\* per gate, so with a score of 0 they are empty or just the date warning.
C10_MonotoneOrdered ==
    [][ /\ pc \in {"gate1", "gate2", "gate3", "gate4", "gate5"} =>
              /\ score_azure' >= score_azure
              /\ Len(reasons') \in {Len(reasons), Len(reasons) + 1}
              /\ SubSeq(reasons', 1, Len(reasons)) = reasons
        /\ pc' = "done" =>
              /\ \A i, j \in 1..Len(reasons') :
                    i < j => GateOf(reasons'[i].kind) < GateOf(reasons'[j].kind)
              /\ score_azure' = 0 =>
                    Kinds(reasons') \in {<<>>, <<"DateWarning">>} ]_vars

C10_Witness ==
    /\ pc = "done"
    /\ score_azure = 0
    /\ Kinds(reasons) = <<"DateWarning">>
====
